---- MODULE Spec2Model ----
(***************************************************************************)
(* Model of the multi-provider generation pipeline of document_summary_llm *)
(* (agents/relevance_checker.py, agents/research_agent.py,                 *)
(* agents/verification_agent.py, providers/gemini.py,                      *)
(* providers/openai_fallback.py) and of the request handler that serves   *)
(* a session (modal_app.py).                                               *)
(*                                                                         *)
(* Python strings are TLA+ strings; a character is a string of length 1.   *)
(* A Python value that may be None is a record [none, text].               *)
(* A temperature is held in tenths (0.3 is 3) so that it stays an integer. *)
(***************************************************************************)
EXTENDS Integers, Sequences, FiniteSets, TLC

\* settings          the credentials of the environment
\* primary_client    per agent: TRUE when the Gemini client was constructed, FALSE for None
\* secondary_client  per agent: TRUE when the OpenAI client was constructed, FALSE for None
\* pc                position of the request being served
\* op                the operation being served
\* args              its arguments and the prompt it built
\* calls             the provider generate calls it has issued, in order
\* llm               what its _get_llm_response returned or raised
\* result            what the operation returned or raised
\* session_state     the session's dictionary: file_hashes and retriever
\* requests          per concurrent input of the container: the coordinator it is in
VARIABLES settings, primary_client, secondary_client, pc, op, args, calls, llm, result,
          session_state, requests

vars == <<settings, primary_client, secondary_client, pc, op, args, calls, llm, result,
          session_state, requests>>

clients == <<settings, primary_client, secondary_client>>

\* what the web application holds besides the agents
app == <<session_state, requests>>

(***************************************************************************)
(* Bounds of the model.                                                    *)
(***************************************************************************)
MaxParts == 2    \* fragments (lines) concatenated into one provider text
MaxDocs == 2     \* passages handed to one call
MaxItems == 3    \* items of one bracketed list
MaxRequests == 2 \* inputs the container serves at the same time

(***************************************************************************)
(* Python string operations.                                               *)
(***************************************************************************)
Ch(s, i) == SubSeq(s, i, i)

Tail1(s) == SubSeq(s, 2, Len(s))

Init1(s) == SubSeq(s, 1, Len(s) - 1)

LOWERCASE == "abcdefghijklmnopqrstuvwxyz"

UPPERCASE == "ABCDEFGHIJKLMNOPQRSTUVWXYZ"

UpperCh(c) ==
    IF \E i \in 1..26 : Ch(LOWERCASE, i) = c
    THEN Ch(UPPERCASE, CHOOSE i \in 1..26 : Ch(LOWERCASE, i) = c)
    ELSE c

LowerCh(c) ==
    IF \E i \in 1..26 : Ch(UPPERCASE, i) = c
    THEN Ch(LOWERCASE, CHOOSE i \in 1..26 : Ch(UPPERCASE, i) = c)
    ELSE c

RECURSIVE Upper(_)
\* str.upper()
Upper(s) == IF s = "" THEN "" ELSE UpperCh(Ch(s, 1)) \o Upper(Tail1(s))

RECURSIVE Lower(_)
\* str.lower()
Lower(s) == IF s = "" THEN "" ELSE LowerCh(Ch(s, 1)) \o Lower(Tail1(s))

\* str.capitalize(): first character upper-cased, the rest lower-cased
Capitalize(s) == IF s = "" THEN "" ELSE UpperCh(Ch(s, 1)) \o Lower(Tail1(s))

RECURSIVE LStripSet(_, _)
LStripSet(s, cs) ==
    IF s # "" /\ Ch(s, 1) \in cs THEN LStripSet(Tail1(s), cs) ELSE s

RECURSIVE RStripSet(_, _)
RStripSet(s, cs) ==
    IF s # "" /\ Ch(s, Len(s)) \in cs THEN RStripSet(Init1(s), cs) ELSE s

\* str.strip(chars)
StripChars(s, cs) == RStripSet(LStripSet(s, cs), cs)

\* str.strip()
Strip(s) == StripChars(s, {" ", "\n", "\t", "\r"})

\* sub in s
Contains(s, sub) ==
    \E i \in 1..(Len(s) - Len(sub) + 1) : SubSeq(s, i, i + Len(sub) - 1) = sub

StartsWith(s, p) == Len(s) >= Len(p) /\ SubSeq(s, 1, Len(p)) = p

EndsWith(s, p) == Len(s) >= Len(p) /\ SubSeq(s, Len(s) - Len(p) + 1, Len(s)) = p

\* index of the first occurrence of the character c in s, 0 when there is none
Find(s, c) ==
    IF \E i \in 1..Len(s) : Ch(s, i) = c
    THEN CHOOSE i \in 1..Len(s) : Ch(s, i) = c /\ \A j \in 1..(i - 1) : Ch(s, j) # c
    ELSE 0

RECURSIVE Split(_, _)
\* str.split(c) for a separator c of one character
Split(s, c) ==
    IF Find(s, c) = 0 THEN <<s>>
    ELSE <<SubSeq(s, 1, Find(s, c) - 1)>> \o Split(SubSeq(s, Find(s, c) + 1, Len(s)), c)

\* str.split(c, 1) of a string that contains c
Split1(s, c) == <<SubSeq(s, 1, Find(s, c) - 1), SubSeq(s, Find(s, c) + 1, Len(s))>>

RECURSIVE Join(_, _)
\* sep.join(parts)
Join(sep, parts) ==
    IF parts = <<>> THEN ""
    ELSE IF Len(parts) = 1 THEN parts[1]
    ELSE parts[1] \o sep \o Join(sep, Tail(parts))

(***************************************************************************)
(* Python values that may be None.                                         *)
(***************************************************************************)
None == [none |-> TRUE, text |-> ""]

Str(t) == [none |-> FALSE, text |-> t]

\* truth value of a str-or-None value
Truthy(v) == ~v.none /\ v.text # ""

\* sequences of length at most n over S
SeqsUpTo(S, n) == UNION {[1..m -> S] : m \in 0..n}

(***************************************************************************)
(* Agents, settings and the texts a provider may produce.                  *)
(***************************************************************************)
Agents == {"RelevanceChecker", "ResearchAgent", "VerificationAgent"}

\* values of settings.GOOGLE_API_KEY / settings.OPENAI_API_KEY: unset or set
ApiKeys == {"", "key"}

Question == "What is X?"

\* page_content of the passages
Contents == {"X is 42.", "Y"}

DocSeqs == SeqsUpTo(Contents, MaxDocs)

\* str(e) of the failures of the hosted services
BackendErrors == {"429 Too Many Requests", "connection timeout"}

\* fragments of the texts a model answers to the classification prompt
RelevanceParts == {"CAN_ANSWER", "Can_Answer", "PART", "NO_MATCH", "de"}

\* fragments of the texts a model answers to the drafting prompt
ResearchParts == {"X is 42.", "It", " ", "\n"}

\* lines of the texts a model answers to the verification prompt
VerificationParts ==
    {"Supported: YES", "relevant: yes", "Unsupported Claims: [a, \"b\", c]",
     "I think so", " "}

\* a complete, well-formed verification answer
FullResponse ==
    "Supported: YES\nUnsupported Claims: [a]\nContradictions: []\nRelevant: NO\nAdditional Details: none"

\* the two-line verification answer of the end-to-end example
TwoLineResponse == "Supported: YES\nRelevant: YES"

JoinAll(sep, S) == {Join(sep, q) : q \in SeqsUpTo(S, MaxParts)}

RelevanceTexts == JoinAll("", RelevanceParts)

ResearchTexts == JoinAll("", ResearchParts)

VerificationTexts == JoinAll("\n", VerificationParts) \cup {FullResponse, TwoLineResponse}

Texts(agent) ==
    CASE agent = "RelevanceChecker" -> RelevanceTexts
      [] agent = "ResearchAgent" -> ResearchTexts
      [] agent = "VerificationAgent" -> VerificationTexts

(***************************************************************************)
(* Provider clients.  A backend value is what the hosted service does on   *)
(* one request; generate turns it into a returned value or an exception.   *)
(***************************************************************************)
Returned(v) == [kind |-> "return", value |-> v, exc |-> "", msg |-> ""]

Raised(exc, msg) == [kind |-> "raise", value |-> None, exc |-> exc, msg |-> msg]

\* as GeminiClient, constructed without the test of the key
GeminiClient_no_key_test(api_key) == TRUE

\* GeminiClient(api_key) / OpenAIClient(api_key): TRUE is a constructed client,
\* FALSE stands for the ValueError raised on a missing key
GeminiClient(api_key) == api_key # ""

OpenAIClient(api_key) == api_key # ""

\* the client slot an agent's __init__ keeps: the client, or None (FALSE)
ClientOrNone(constructed) == constructed

GeminiBackends(agent) ==
    [kind : {"exception"}, text : BackendErrors]
    \cup [kind : {"no_candidates", "text_raises"}, text : {""}]
    \cup [kind : {"parts", "text"}, text : Texts(agent)]

OpenAIBackends(agent) ==
    [kind : {"exception"}, text : BackendErrors]
    \cup [kind : {"content_none"}, text : {""}]
    \cup [kind : {"content"}, text : Texts(agent)]

GeminiClient_generate(backend) ==
    CASE backend.kind = "exception" -> Raised("RuntimeError", "Gemini Error: " \o backend.text)
      [] backend.kind = "no_candidates" -> Returned(Str(""))
      [] backend.kind = "parts" -> Returned(Str(backend.text))
      [] backend.kind = "text" -> Returned(Str(IF backend.text # "" THEN backend.text ELSE ""))
      [] backend.kind = "text_raises" -> Returned(Str(""))

OpenAIClient_generate(backend) ==
    CASE backend.kind = "exception" -> Raised("RuntimeError", "OpenAI Error: " \o backend.text)
      [] backend.kind = "content_none" -> Returned(None)
      [] backend.kind = "content" -> Returned(Str(backend.text))

(***************************************************************************)
(* Results of operations.                                                  *)
(***************************************************************************)
NoResult == [kind |-> "none", value |-> None, exc |-> "", msg |-> "", cause |-> ""]

Return(v) == [kind |-> "return", value |-> v, exc |-> "", msg |-> "", cause |-> ""]

Raise(exc, msg, cause) == [kind |-> "raise", value |-> None, exc |-> exc, msg |-> msg, cause |-> cause]

NoLlm == [kind |-> "none", value |-> None, exc |-> "", msg |-> ""]

ProviderCall(provider, constraints, outcome) ==
    [provider |-> provider, prompt |-> args.prompt,
     max_tokens |-> constraints.max_tokens, temperature |-> constraints.temperature,
     outcome |-> outcome]

\* the f-string prompts, held as their interpolated parts
Prompt(template, subject, context) ==
    [template |-> template, subject |-> subject, context |-> context]

\* seq[:k]
Take(seq, k) == SubSeq(seq, 1, IF Len(seq) < k THEN Len(seq) ELSE k)

(***************************************************************************)
(* RelevanceChecker                                                        *)
(***************************************************************************)
RelevanceChecker_constraints == [max_tokens |-> 1000, temperature |-> 0]

\* as RelevanceChecker_check_retrieve, without the test of an empty retrieval
RelevanceChecker_check_retrieve_no_guard ==
    /\ pc = "idle"
    /\ \E top_docs \in DocSeqs, k \in {1, 3} :
        /\ op' = "RelevanceChecker.check"
        /\ calls' = <<>>
        /\ llm' = NoLlm
        /\ args' = [question |-> Question, top_docs |-> top_docs, k |-> k,
                    prompt |-> Prompt("relevance", Question,
                                      Join("\n\n", Take(top_docs, k)))]
        /\ result' = NoResult
        /\ pc' = "primary"
    /\ UNCHANGED <<clients, app>>

\* check, up to the call of _get_llm_response
RelevanceChecker_check_retrieve ==
    /\ pc = "idle"
    /\ \E top_docs \in DocSeqs, k \in {1, 3} :
        /\ op' = "RelevanceChecker.check"
        /\ calls' = <<>>
        /\ llm' = NoLlm
        /\ IF top_docs = <<>>
           THEN /\ args' = [question |-> Question, top_docs |-> top_docs, k |-> k,
                            prompt |-> Prompt("", "", "")]
                /\ result' = Return("NO_MATCH")
                /\ pc' = "done"
           ELSE /\ args' = [question |-> Question, top_docs |-> top_docs, k |-> k,
                            prompt |-> Prompt("relevance", Question,
                                              Join("\n\n", Take(top_docs, k)))]
                /\ result' = NoResult
                /\ pc' = "primary"
    /\ UNCHANGED <<clients, app>>

\* as RelevanceChecker_get_llm_response_primary, an empty text taken for a failure
RelevanceChecker_get_llm_response_primary_empty_fails ==
    /\ pc = "primary" /\ op = "RelevanceChecker.check"
    /\ IF primary_client["RelevanceChecker"]
       THEN \E backend \in GeminiBackends("RelevanceChecker") :
               LET p == GeminiClient_generate(backend)
               IN  /\ calls' = Append(calls, ProviderCall("Primary", RelevanceChecker_constraints, p))
                   /\ IF p.kind = "return" /\ Truthy(p.value)
                      THEN llm' = p /\ pc' = "resolved"
                      ELSE llm' = llm /\ pc' = "secondary"
       ELSE calls' = calls /\ llm' = llm /\ pc' = "secondary"
    /\ UNCHANGED <<clients, app, op, args, result>>

\* _get_llm_response: 1. Try Primary (Gemini)
RelevanceChecker_get_llm_response_primary ==
    /\ pc = "primary" /\ op = "RelevanceChecker.check"
    /\ IF primary_client["RelevanceChecker"]
       THEN \E backend \in GeminiBackends("RelevanceChecker") :
               LET p == GeminiClient_generate(backend)
               IN  /\ calls' = Append(calls, ProviderCall("Primary", RelevanceChecker_constraints, p))
                   /\ IF p.kind = "return"
                      THEN llm' = p /\ pc' = "resolved"
                      ELSE llm' = llm /\ pc' = "secondary"
       ELSE calls' = calls /\ llm' = llm /\ pc' = "secondary"
    /\ UNCHANGED <<clients, app, op, args, result>>

\* as RelevanceChecker_get_llm_response_secondary, the return of the Secondary's text lost
RelevanceChecker_get_llm_response_secondary_no_return ==
    /\ pc = "secondary" /\ op = "RelevanceChecker.check"
    /\ IF secondary_client["RelevanceChecker"]
       THEN \E backend \in OpenAIBackends("RelevanceChecker") :
               LET s == OpenAIClient_generate(backend)
               IN  /\ calls' = Append(calls, ProviderCall("Secondary", RelevanceChecker_constraints, s))
                   /\ llm' = Raised("RuntimeError", "All models failed to generate a response.")
       ELSE /\ calls' = calls
            /\ llm' = Raised("RuntimeError", "All models failed to generate a response.")
    /\ pc' = "resolved"
    /\ UNCHANGED <<clients, app, op, args, result>>

\* _get_llm_response: 2. Try Secondary (OpenAI), 3. Fail
RelevanceChecker_get_llm_response_secondary ==
    /\ pc = "secondary" /\ op = "RelevanceChecker.check"
    /\ IF secondary_client["RelevanceChecker"]
       THEN \E backend \in OpenAIBackends("RelevanceChecker") :
               LET s == OpenAIClient_generate(backend)
               IN  /\ calls' = Append(calls, ProviderCall("Secondary", RelevanceChecker_constraints, s))
                   /\ llm' = IF s.kind = "return" THEN s
                             ELSE Raised("RuntimeError", "All models failed to generate a response.")
       ELSE /\ calls' = calls
            /\ llm' = Raised("RuntimeError", "All models failed to generate a response.")
    /\ pc' = "resolved"
    /\ UNCHANGED <<clients, app, op, args, result>>

\* as Classify, PART tested before CAN_ANSWER
Classify_part_first(llm_response) ==
    IF Contains(llm_response, "PART") THEN "PARTIAL"
    ELSE IF Contains(llm_response, "CAN_ANSWER") THEN "CAN_ANSWER"
    ELSE IF Contains(llm_response, "NO_MATCH") THEN "NO_MATCH"
    ELSE "NO_MATCH"

\* as Classify, an unexpected output classified PARTIAL
Classify_default_partial(llm_response) ==
    IF Contains(llm_response, "CAN_ANSWER") THEN "CAN_ANSWER"
    ELSE IF Contains(llm_response, "PART") THEN "PARTIAL"
    ELSE IF Contains(llm_response, "NO_MATCH") THEN "NO_MATCH"
    ELSE "PARTIAL"

\* the fuzzy matching of check on the cleaned response
Classify(llm_response) ==
    IF Contains(llm_response, "CAN_ANSWER") THEN "CAN_ANSWER"
    ELSE IF Contains(llm_response, "PART") THEN "PARTIAL"
    ELSE IF Contains(llm_response, "NO_MATCH") THEN "NO_MATCH"
    ELSE "NO_MATCH"

\* check, from the return of _get_llm_response on
RelevanceChecker_check_result(response) ==
    IF response.kind = "raise" /\ response.exc = "RuntimeError" THEN Return("NO_MATCH")
    ELSE IF response.value.none
    THEN Raise("AttributeError", "'NoneType' object has no attribute 'strip'", "")
    ELSE Return(Classify(Upper(Strip(response.value.text))))

RelevanceChecker_check_classify ==
    /\ pc = "resolved" /\ op = "RelevanceChecker.check"
    /\ result' = RelevanceChecker_check_result(llm)
    /\ pc' = "done"
    /\ UNCHANGED <<clients, app, op, args, calls, llm>>

(***************************************************************************)
(* ResearchAgent                                                           *)
(***************************************************************************)
\* as ResearchAgent_constraints, at the classifier's temperature
ResearchAgent_constraints_cold == [max_tokens |-> 4000, temperature |-> 0]

\* temperatures are held in tenths: 3 is 0.3
ResearchAgent_constraints == [max_tokens |-> 4000, temperature |-> 3]

ResearchAgent_sanitize_response(response_text) == Strip(response_text)

\* as ResearchAgent_context, only the first passage kept
ResearchAgent_context_first(documents) == Join("\n\n", Take(documents, 1))

\* generate: context = "\n\n".join([doc.page_content for doc in documents])
ResearchAgent_context(documents) == Join("\n\n", documents)

\* generate, up to the call of _get_llm_response
ResearchAgent_generate_prompt ==
    /\ pc = "idle"
    /\ \E documents \in DocSeqs :
        /\ op' = "ResearchAgent.generate"
        /\ args' = [question |-> Question, documents |-> documents,
                    prompt |-> Prompt("research", Question, ResearchAgent_context(documents))]
    /\ calls' = <<>>
    /\ llm' = NoLlm
    /\ result' = NoResult
    /\ pc' = "primary"
    /\ UNCHANGED <<clients, app>>

\* _get_llm_response: 1. ALWAYS try Gemini first
ResearchAgent_get_llm_response_primary ==
    /\ pc = "primary" /\ op = "ResearchAgent.generate"
    /\ IF primary_client["ResearchAgent"]
       THEN \E backend \in GeminiBackends("ResearchAgent") :
               LET p == GeminiClient_generate(backend)
               IN  /\ calls' = Append(calls, ProviderCall("Primary", ResearchAgent_constraints, p))
                   /\ IF p.kind = "return"
                      THEN llm' = p /\ pc' = "resolved"
                      ELSE llm' = llm /\ pc' = "secondary"
       ELSE calls' = calls /\ llm' = llm /\ pc' = "secondary"
    /\ UNCHANGED <<clients, app, op, args, result>>

\* the error _get_llm_response raises when the Secondary's generate raised e
ResearchAgent_secondary_failed(e) ==
    IF Contains(e.msg, "429")
    THEN Raised("RuntimeError", "Rate limit reached. Please wait 60 seconds.")
    ELSE Raised("RuntimeError", "No AI models are currently responding. Check your API keys.")

\* as ResearchAgent_get_llm_response_secondary, an empty text returned instead of the final raise
ResearchAgent_get_llm_response_secondary_empty ==
    /\ pc = "secondary" /\ op = "ResearchAgent.generate"
    /\ IF secondary_client["ResearchAgent"]
       THEN \E backend \in OpenAIBackends("ResearchAgent") :
               LET s == OpenAIClient_generate(backend)
               IN  /\ calls' = Append(calls, ProviderCall("Secondary", ResearchAgent_constraints, s))
                   /\ llm' = IF s.kind = "return" THEN s ELSE ResearchAgent_secondary_failed(s)
       ELSE /\ calls' = calls
            /\ llm' = Returned(Str(""))
    /\ pc' = "resolved"
    /\ UNCHANGED <<clients, app, op, args, result>>

\* _get_llm_response: 2. Try OpenAI second, then raise
ResearchAgent_get_llm_response_secondary ==
    /\ pc = "secondary" /\ op = "ResearchAgent.generate"
    /\ IF secondary_client["ResearchAgent"]
       THEN \E backend \in OpenAIBackends("ResearchAgent") :
               LET s == OpenAIClient_generate(backend)
               IN  /\ calls' = Append(calls, ProviderCall("Secondary", ResearchAgent_constraints, s))
                   /\ llm' = IF s.kind = "return" THEN s ELSE ResearchAgent_secondary_failed(s)
       ELSE /\ calls' = calls
            /\ llm' = Raised("RuntimeError",
                             "No AI models are currently responding. Check your API keys.")
    /\ pc' = "resolved"
    /\ UNCHANGED <<clients, app, op, args, result>>

Sentinel == "I cannot answer this question."

\* generate, from the return of _get_llm_response on
ResearchAgent_generate_result(response, context) ==
    IF response.kind = "raise"
    THEN Raise("RuntimeError", "Failed to generate answer due to a model error.", response.msg)
    ELSE Return([draft_answer |-> IF Truthy(response.value)
                                  THEN ResearchAgent_sanitize_response(response.value.text)
                                  ELSE Sentinel,
                 context_used |-> context])

ResearchAgent_generate_return ==
    /\ pc = "resolved" /\ op = "ResearchAgent.generate"
    /\ result' = ResearchAgent_generate_result(llm, ResearchAgent_context(args.documents))
    /\ pc' = "done"
    /\ UNCHANGED <<clients, app, op, args, calls, llm>>

(***************************************************************************)
(* VerificationAgent                                                       *)
(***************************************************************************)
VerificationAgent_constraints == [max_tokens |-> 3000, temperature |-> 0]

VerificationAgent_sanitize_response(response_text) == Strip(response_text)

\* Python dicts are functions; None instead of a dict is [none |-> TRUE]
EmptyDict == [key \in {} |-> ""]

DictSet(d, key, value) ==
    [x \in DOMAIN d \cup {key} |-> IF x = key THEN value ELSE d[x]]

\* d.get(key, default)
DictGet(d, key, default) == IF key \in DOMAIN d THEN d[key] ELSE default

NoneDict == [none |-> TRUE, dict |-> EmptyDict]

Dict(d) == [none |-> FALSE, dict |-> d]

\* [item.strip().strip('"').strip("'") for item in items if item.strip()]
CleanItems(items) ==
    LET kept == SelectSeq(items, LAMBDA item : Strip(item) # "")
    IN  [i \in 1..Len(kept) |-> StripChars(StripChars(Strip(kept[i]), {"\""}), {"'"})]

\* the body of the loop over the lines of parse_verification_response
ParseLine(verification, line) ==
    IF ~Contains(line, ":") THEN verification
    ELSE LET key == Capitalize(Strip(Split1(line, ":")[1]))
             value == Strip(Split1(line, ":")[2])
         IN  IF key \notin {"Supported", "Unsupported claims", "Contradictions",
                            "Relevant", "Additional details"}
             THEN verification
             ELSE IF key \in {"Unsupported claims", "Contradictions"}
             THEN IF StartsWith(value, "[") /\ EndsWith(value, "]")
                  THEN DictSet(verification, key,
                               CleanItems(Split(SubSeq(value, 2, Len(value) - 1), ",")))
                  ELSE DictSet(verification, key, <<>>)
             ELSE IF key = "Additional details"
             THEN DictSet(verification, key, value)
             ELSE DictSet(verification, key, Upper(value))

RECURSIVE ParseLines(_, _)
ParseLines(verification, lines) ==
    IF lines = <<>> THEN verification
    ELSE ParseLines(ParseLine(verification, Head(lines)), Tail(lines))

\* "Ensure all keys are present"
EnsureKey(verification, key) ==
    IF key \in DOMAIN verification THEN verification
    ELSE IF key \in {"Unsupported Claims", "Contradictions"} THEN DictSet(verification, key, <<>>)
    ELSE IF key = "Additional Details" THEN DictSet(verification, key, "")
    ELSE DictSet(verification, key, "NO")

EnsureAllKeys(verification) ==
    EnsureKey(EnsureKey(EnsureKey(EnsureKey(EnsureKey(verification,
        "Supported"), "Unsupported Claims"), "Contradictions"), "Relevant"),
        "Additional Details")

\* parse_verification_response; a response_text of None makes split raise,
\* which the except clause turns into None
VerificationAgent_parse_verification_response(response_text) ==
    IF response_text.none THEN NoneDict
    ELSE Dict(EnsureAllKeys(ParseLines(EmptyDict, Split(response_text.text, "\n"))))

VerificationAgent_format_verification_report(verification) ==
    LET supported == DictGet(verification, "Supported", "NO")
        unsupported_claims == DictGet(verification, "Unsupported Claims", <<>>)
        contradictions == DictGet(verification, "Contradictions", <<>>)
        relevant == DictGet(verification, "Relevant", "NO")
        additional_details == DictGet(verification, "Additional Details", "")
    IN  "**Supported:** " \o supported \o "\n"
        \o (IF unsupported_claims # <<>>
            THEN "**Unsupported Claims:** " \o Join(", ", unsupported_claims) \o "\n"
            ELSE "**Unsupported Claims:** None\n")
        \o (IF contradictions # <<>>
            THEN "**Contradictions:** " \o Join(", ", contradictions) \o "\n"
            ELSE "**Contradictions:** None\n")
        \o "**Relevant:** " \o relevant \o "\n"
        \o (IF additional_details # ""
            THEN "**Additional Details:** " \o additional_details \o "\n"
            ELSE "**Additional Details:** None\n")

\* the all-default report check substitutes, with its note
DefaultReport(note) ==
    [k \in {"Supported", "Unsupported Claims", "Contradictions", "Relevant", "Additional Details"} |->
        CASE k \in {"Supported", "Relevant"} -> "NO"
          [] k \in {"Unsupported Claims", "Contradictions"} -> <<>>
          [] OTHER -> note]

\* check: context = "\n\n".join([doc.page_content for doc in documents])
VerificationAgent_context(documents) == Join("\n\n", documents)

\* check, up to the call of _get_llm_response
VerificationAgent_check_prompt ==
    /\ pc = "idle"
    /\ \E documents \in DocSeqs, answer \in {"X is 42."} :
        /\ op' = "VerificationAgent.check"
        /\ args' = [answer |-> answer, documents |-> documents,
                    prompt |-> Prompt("verification", answer, VerificationAgent_context(documents))]
    /\ calls' = <<>>
    /\ llm' = NoLlm
    /\ result' = NoResult
    /\ pc' = "primary"
    /\ UNCHANGED <<clients, app>>

\* as VerificationAgent_get_llm_response_primary, the Secondary tried after a success too
VerificationAgent_get_llm_response_primary_no_return ==
    /\ pc = "primary" /\ op = "VerificationAgent.check"
    /\ IF primary_client["VerificationAgent"]
       THEN \E backend \in GeminiBackends("VerificationAgent") :
               LET p == GeminiClient_generate(backend)
               IN  /\ calls' = Append(calls, ProviderCall("Primary", VerificationAgent_constraints, p))
                   /\ llm' = llm /\ pc' = "secondary"
       ELSE calls' = calls /\ llm' = llm /\ pc' = "secondary"
    /\ UNCHANGED <<clients, app, op, args, result>>

\* _get_llm_response: 1. ALWAYS try Gemini first
VerificationAgent_get_llm_response_primary ==
    /\ pc = "primary" /\ op = "VerificationAgent.check"
    /\ IF primary_client["VerificationAgent"]
       THEN \E backend \in GeminiBackends("VerificationAgent") :
               LET p == GeminiClient_generate(backend)
               IN  /\ calls' = Append(calls, ProviderCall("Primary", VerificationAgent_constraints, p))
                   /\ IF p.kind = "return"
                      THEN llm' = p /\ pc' = "resolved"
                      ELSE llm' = llm /\ pc' = "secondary"
       ELSE calls' = calls /\ llm' = llm /\ pc' = "secondary"
    /\ UNCHANGED <<clients, app, op, args, result>>

\* the error _get_llm_response raises when the Secondary's generate raised e
VerificationAgent_secondary_failed(e) ==
    IF Contains(e.msg, "429")
    THEN Raised("RuntimeError", "Rate limit reached. Please wait 60 seconds.")
    ELSE Raised("RuntimeError", "No AI models are currently responding. Check your API keys.")

\* _get_llm_response: 2. Try OpenAI second, then raise
VerificationAgent_get_llm_response_secondary ==
    /\ pc = "secondary" /\ op = "VerificationAgent.check"
    /\ IF secondary_client["VerificationAgent"]
       THEN \E backend \in OpenAIBackends("VerificationAgent") :
               LET s == OpenAIClient_generate(backend)
               IN  /\ calls' = Append(calls, ProviderCall("Secondary", VerificationAgent_constraints, s))
                   /\ llm' = IF s.kind = "return" THEN s ELSE VerificationAgent_secondary_failed(s)
       ELSE /\ calls' = calls
            /\ llm' = Raised("RuntimeError",
                             "No AI models are currently responding. Check your API keys.")
    /\ pc' = "resolved"
    /\ UNCHANGED <<clients, app, op, args, result>>

\* as VerificationAgent_check_report, an empty response handed to the parser
VerificationAgent_check_report_no_default(llm_response) ==
    LET sanitized_response == IF Truthy(llm_response)
                              THEN VerificationAgent_sanitize_response(llm_response.text)
                              ELSE ""
        parsed == VerificationAgent_parse_verification_response(Str(sanitized_response))
    IN  IF parsed.none THEN DefaultReport("Failed to parse the model's response.")
        ELSE parsed.dict

\* the report dictionary check formats: parsed, or one of the two defaults
VerificationAgent_check_report(llm_response) ==
    LET sanitized_response == IF Truthy(llm_response)
                              THEN VerificationAgent_sanitize_response(llm_response.text)
                              ELSE ""
        parsed == VerificationAgent_parse_verification_response(Str(sanitized_response))
    IN  IF sanitized_response = "" THEN DefaultReport("Empty response from the model.")
        ELSE IF parsed.none THEN DefaultReport("Failed to parse the model's response.")
        ELSE parsed.dict

\* check, from the return of _get_llm_response on
VerificationAgent_check_result(response, context) ==
    IF response.kind = "raise"
    THEN Raise("RuntimeError", "Failed to verify answer due to a model error.", response.msg)
    ELSE Return([verification_report |->
                     VerificationAgent_format_verification_report(
                         VerificationAgent_check_report(response.value)),
                 context_used |-> context])

VerificationAgent_check_return ==
    /\ pc = "resolved" /\ op = "VerificationAgent.check"
    /\ result' = VerificationAgent_check_result(llm, VerificationAgent_context(args.documents))
    /\ pc' = "done"
    /\ UNCHANGED <<clients, app, op, args, calls, llm>>

(***************************************************************************)
(* modal_app: process_question, the handler of one session's requests.     *)
(***************************************************************************)
\* the cross mark (U+274C) of the handler's messages, written in ASCII
CrossMark == "[x]"

\* the files a user may upload, by name, and the bytes of each
Files == {"a.pdf", "b.txt", "c.md"}

FileBytes(file) ==
    CASE file = "a.pdf" -> "X is 42."
      [] file = "b.txt" -> "X is 42."
      [] file = "c.md" -> ""

Uploads == SeqsUpTo(Files, MaxDocs)

QuestionTexts == {"", " ", Question}

\* hashlib.sha256(f.read()).hexdigest(): one digest per content
Sha256(bytes) == "sha256:" \o bytes

\* _get_file_hashes
get_file_hashes(uploaded_files) ==
    {Sha256(FileBytes(uploaded_files[i])) : i \in 1..Len(uploaded_files)}

\* state["retriever"]: None, or the retriever built over docs
NoRetriever == [none |-> TRUE, docs |-> <<>>]

\* what a collaborator of the handler returned or raised
Gave(v) == [kind |-> "return", value |-> v, msg |-> ""]

Threw(v, msg) == [kind |-> "raise", value |-> v, msg |-> msg]

\* the chunks of the readable text of the files, each with its source
RECURSIVE Chunks(_)
Chunks(uploaded_files) ==
    IF uploaded_files = <<>> THEN <<>>
    ELSE LET file == uploaded_files[1]
         IN  (IF FileBytes(file) = "" THEN <<>>
              ELSE <<[page_content |-> FileBytes(file), source |-> file]>>)
             \o Chunks(Tail(uploaded_files))

\* processor.process(uploaded_files): the chunks, or an exception of the processor
DocumentProcessor_process(uploaded_files, processor) ==
    IF processor = "error" THEN Threw(<<>>, "Unsupported file type")
    ELSE Gave(Chunks(uploaded_files))

\* RetrieverBuilder.build_hybrid_retriever(docs); backend is the outcome of
\* the embedding and vector store calls
RetrieverBuilder_build_hybrid_retriever(docs, backend) ==
    IF docs = <<>> THEN Gave(NoRetriever)
    ELSE IF backend = "error" THEN Threw(NoRetriever, "embedding request failed")
    ELSE Gave([none |-> FALSE, docs |-> docs])

\* workflow.full_pipeline(...) as the handler sees it: a result dictionary or
\* an exception
PipelineOutcomes ==
    {Gave([draft_answer |-> "X is 42.", verification_report |-> "**Supported:** YES\n"]),
     Threw([draft_answer |-> "", verification_report |-> ""],
           "Failed to generate answer due to a model error."),
     Threw([draft_answer |-> "", verification_report |-> ""],
           "Failed to verify answer due to a model error.")}

\* what the environment does during one request
Environments ==
    [readable : BOOLEAN, processor : {"ok", "error"}, builder : {"ok", "error"},
     pipeline : PipelineOutcomes]

\* the call of a collaborator, as logged for the request
Called(callee, outcome) == [callee |-> callee, kind |-> outcome.kind]

\* where the try block ended: by a return or by an exception
Completed(answer, report, state, log) ==
    [kind |-> "return", msg |-> "", answer |-> answer, report |-> report,
     state |-> state, calls |-> log]

Thrown(msg, state, log) ==
    [kind |-> "raise", msg |-> msg, answer |-> "", report |-> "",
     state |-> state, calls |-> log]

\* as NeedsRebuild, the comparison of the hashes left out
NeedsRebuild_unset_only(state, current_hashes) == state.retriever.none

\* if state["retriever"] is None or current_hashes != state["file_hashes"]
NeedsRebuild(state, current_hashes) ==
    state.retriever.none \/ current_hashes # state.file_hashes

\* state.update({"file_hashes": current_hashes, "retriever": retriever})
StateUpdate(state, current_hashes, retriever) ==
    [state EXCEPT !.file_hashes = current_hashes, !.retriever = retriever]

\* the rebuild of the retriever inside the try block
process_question_rebuild(uploaded_files, state, current_hashes, env) ==
    LET chunks == DocumentProcessor_process(uploaded_files, env.processor)
        processed == <<Called("processor.process", chunks)>>
        retriever == RetrieverBuilder_build_hybrid_retriever(chunks.value, env.builder)
        built == Append(processed, Called("retriever_builder.build_hybrid_retriever", retriever))
    IN  IF chunks.kind = "raise" THEN Thrown(chunks.msg, state, processed)
        ELSE IF chunks.value = <<>> THEN Thrown("No readable text found.", state, processed)
        ELSE IF retriever.kind = "raise" THEN Thrown(retriever.msg, state, built)
        ELSE Completed("", "", StateUpdate(state, current_hashes, retriever.value), built)

\* the try block of process_question
process_question_try(question_text, uploaded_files, state, env) ==
    IF Strip(question_text) = ""
    THEN Thrown(CrossMark \o " Question cannot be empty", state, <<>>)
    ELSE IF uploaded_files = <<>>
    THEN Thrown(CrossMark \o " No documents uploaded", state, <<>>)
    ELSE IF ~env.readable
    THEN Thrown("[Errno 2] No such file or directory", state,
                <<Called("_get_file_hashes", Threw({}, ""))>>)
    ELSE LET current_hashes == get_file_hashes(uploaded_files)
             hashed == <<Called("_get_file_hashes", Gave(current_hashes))>>
             rebuilt == IF NeedsRebuild(state, current_hashes)
                        THEN process_question_rebuild(uploaded_files, state, current_hashes, env)
                        ELSE Completed("", "", state, <<>>)
             piped == hashed \o rebuilt.calls \o <<Called("workflow.full_pipeline", env.pipeline)>>
         IN  IF rebuilt.kind = "raise" THEN [rebuilt EXCEPT !.calls = hashed \o rebuilt.calls]
             ELSE IF env.pipeline.kind = "raise"
             THEN Thrown(env.pipeline.msg, rebuilt.state, piped)
             ELSE Completed(env.pipeline.value.draft_answer,
                            env.pipeline.value.verification_report, rebuilt.state, piped)

\* as process_question_except, the exception raised again
process_question_except_reraise(e) == Raise("Exception", e.msg, "")

\* except Exception as e: return f"<cross> Error: {str(e)}", "", state
process_question_except(e) ==
    Return([answer |-> CrossMark \o " Error: " \o e.msg, verification_report |-> "",
            state |-> e.state])

\* one click on Submit: the handler runs and the session keeps the state it returned
process_question ==
    /\ pc = "idle"
    /\ \E question_text \in QuestionTexts, uploaded_files \in Uploads, env \in Environments :
          LET tried == process_question_try(question_text, uploaded_files, session_state, env)
          IN  /\ args' = [question_text |-> question_text, uploaded_files |-> uploaded_files,
                          state |-> session_state]
              /\ calls' = tried.calls
              /\ result' = IF tried.kind = "raise" THEN process_question_except(tried)
                           ELSE Return([answer |-> tried.answer,
                                        verification_report |-> tried.report,
                                        state |-> tried.state])
              /\ session_state' = tried.state
    /\ op' = "process_question"
    /\ llm' = NoLlm
    /\ pc' = "done"
    /\ UNCHANGED <<clients, requests>>

(***************************************************************************)
(* The coordinators under concurrent inputs: the container serves up to    *)
(* MaxRequests inputs at once on the one AgentWorkflow it constructed, so  *)
(* the _get_llm_response of an agent runs in several requests at a time.   *)
(* A request is followed by the providers it tried and how each ended.     *)
(***************************************************************************)
RequestIds == 1..MaxRequests

IdleRequest == [pc |-> "idle", agent |-> "none", tried |-> <<>>]

Tried(provider, kind) == [provider |-> provider, kind |-> kind]

\* a request enters the _get_llm_response of one of the agents
Request_get_llm_response(r) ==
    /\ requests[r].pc = "idle"
    /\ \E agent \in Agents :
          requests' = [requests EXCEPT ![r] = [pc |-> "primary", agent |-> agent, tried |-> <<>>]]
    /\ UNCHANGED <<clients, pc, op, args, calls, llm, result, session_state>>

\* as Request_primary, a failed Primary dropped from the agent
Request_primary_drops_client(r) ==
    /\ requests[r].pc = "primary"
    /\ IF primary_client[requests[r].agent]
       THEN \E kind \in {"return", "raise"} :
               /\ requests' = [requests EXCEPT
                      ![r].tried = Append(@, Tried("Primary", kind)),
                      ![r].pc = IF kind = "return" THEN "done" ELSE "secondary"]
               /\ primary_client' = IF kind = "return" THEN primary_client
                                    ELSE [primary_client EXCEPT ![requests[r].agent] = FALSE]
       ELSE /\ requests' = [requests EXCEPT ![r].pc = "secondary"]
            /\ primary_client' = primary_client
    /\ UNCHANGED <<settings, secondary_client, pc, op, args, calls, llm, result, session_state>>

\* if self.primary_client: try: return self.primary_client.generate(...)
Request_primary(r) ==
    /\ requests[r].pc = "primary"
    /\ IF primary_client[requests[r].agent]
       THEN \E kind \in {"return", "raise"} :
               /\ requests' = [requests EXCEPT
                      ![r].tried = Append(@, Tried("Primary", kind)),
                      ![r].pc = IF kind = "return" THEN "done" ELSE "secondary"]
               /\ primary_client' = primary_client
       ELSE /\ requests' = [requests EXCEPT ![r].pc = "secondary"]
            /\ primary_client' = primary_client
    /\ UNCHANGED <<settings, secondary_client, pc, op, args, calls, llm, result, session_state>>

\* if self.secondary_client: try: return self.secondary_client.generate(...); raise
Request_secondary(r) ==
    /\ requests[r].pc = "secondary"
    /\ IF secondary_client[requests[r].agent]
       THEN \E kind \in {"return", "raise"} :
               requests' = [requests EXCEPT
                   ![r].tried = Append(@, Tried("Secondary", kind)),
                   ![r].pc = "done"]
       ELSE requests' = [requests EXCEPT ![r].pc = "done"]
    /\ UNCHANGED <<clients, pc, op, args, calls, llm, result, session_state>>

\* the coordinator has returned or raised: the request leaves it
Request_leave(r) ==
    /\ requests[r].pc = "done"
    /\ requests' = [requests EXCEPT ![r] = IdleRequest]
    /\ UNCHANGED <<clients, pc, op, args, calls, llm, result, session_state>>

\* the request has been answered: its frame is dropped
Finish ==
    /\ pc = "done"
    /\ pc' = "idle"
    /\ op' = "none"
    /\ args' = <<>>
    /\ calls' = <<>>
    /\ llm' = NoLlm
    /\ result' = NoResult
    /\ UNCHANGED <<clients, app>>

(***************************************************************************)
(* State machine.                                                          *)
(***************************************************************************)
Init ==
    /\ settings \in [GOOGLE_API_KEY : ApiKeys, OPENAI_API_KEY : ApiKeys]
    /\ primary_client = [a \in Agents |-> ClientOrNone(GeminiClient(settings.GOOGLE_API_KEY))]
    /\ secondary_client = [a \in Agents |-> ClientOrNone(OpenAIClient(settings.OPENAI_API_KEY))]
    /\ pc = "idle"
    /\ op = "none"
    /\ args = <<>>
    /\ calls = <<>>
    /\ llm = NoLlm
    /\ result = NoResult
    /\ session_state = [file_hashes |-> {}, retriever |-> NoRetriever]
    /\ requests = [r \in RequestIds |-> IdleRequest]

Next ==
    \/ RelevanceChecker_check_retrieve
    \/ RelevanceChecker_get_llm_response_primary
    \/ RelevanceChecker_get_llm_response_secondary
    \/ RelevanceChecker_check_classify
    \/ ResearchAgent_generate_prompt
    \/ ResearchAgent_get_llm_response_primary
    \/ ResearchAgent_get_llm_response_secondary
    \/ ResearchAgent_generate_return
    \/ VerificationAgent_check_prompt
    \/ VerificationAgent_get_llm_response_primary
    \/ VerificationAgent_get_llm_response_secondary
    \/ VerificationAgent_check_return
    \/ Finish

Spec == Init /\ [][Next]_vars

(***************************************************************************)
(* The parser and the formatter of the verification report as operations   *)
(* of their own, on responses built from line descriptions.                *)
(***************************************************************************)
\* an item of a bracketed list and the quote written around it
ItemSpecs == {[text |-> "a", quote |-> ""], [text |-> "b", quote |-> "\""],
              [text |-> "c", quote |-> "'"]}

\* the bracketed lists: up to MaxItems items, none twice
ItemLists ==
    {items \in SeqsUpTo(ItemSpecs, MaxItems) :
        \A i, j \in 1..Len(items) : i # j => items[i] # items[j]}

LineSpecs ==
    [key : {"Supported", "relevant"}, kind : {"scalar"}, items : {<<>>}, value : {"YES", "no"}]
    \cup [key : {"Additional Details"}, kind : {"scalar"}, items : {<<>>}, value : {"see: p"}]
    \cup [key : {"Unsupported Claims", "Contradictions"}, kind : {"list"},
          items : ItemLists, value : {""}]
    \cup [key : {"Contradictions"}, kind : {"scalar"}, items : {<<>>}, value : {"none"}]
    \cup [key : {""}, kind : {"raw"}, items : {<<>>}, value : {"I think so"}]

\* the text of one line of a response
RenderLine(line) ==
    CASE line.kind = "raw" -> line.value
      [] line.kind = "scalar" -> line.key \o ": " \o line.value
      [] line.kind = "list" ->
            line.key \o ": ["
            \o Join(", ", [i \in 1..Len(line.items) |->
                              line.items[i].quote \o line.items[i].text \o line.items[i].quote])
            \o "]"

RenderResponse(lines) == Join("\n", [i \in 1..Len(lines) |-> RenderLine(lines[i])])

VerificationAgent_parse_call ==
    /\ pc = "idle"
    /\ \E lines \in SeqsUpTo(LineSpecs, MaxParts) :
        /\ args' = [lines |-> lines, response_text |-> RenderResponse(lines),
                    verification |-> NoneDict]
        /\ result' = Return(VerificationAgent_parse_verification_response(
                                Str(RenderResponse(lines))))
    /\ op' = "VerificationAgent.parse_verification_response"
    /\ pc' = "parsed"
    /\ UNCHANGED <<clients, app, calls, llm>>

VerificationAgent_format_call ==
    /\ pc = "parsed"
    /\ ~result.value.none
    /\ args' = [args EXCEPT !.verification = result.value]
    /\ result' = Return(VerificationAgent_format_verification_report(result.value.dict))
    /\ op' = "VerificationAgent.format_verification_report"
    /\ pc' = "done"
    /\ UNCHANGED <<clients, app, calls, llm>>

NextParse ==
    \/ VerificationAgent_parse_call
    \/ VerificationAgent_format_call
    \/ Finish

\* the parser does not read the clients: one construction is enough
InitParse == Init /\ settings = [GOOGLE_API_KEY |-> "key", OPENAI_API_KEY |-> "key"]

SpecParse == InitParse /\ [][NextParse]_vars

(***************************************************************************)
(* One session of the web application: requests served one after another.  *)
(***************************************************************************)
NextSession ==
    \/ process_question
    \/ Finish

\* run_gradio constructs RetrieverBuilder, which raises without GOOGLE_API_KEY
InitSession == Init /\ settings.GOOGLE_API_KEY # ""

SpecSession == InitSession /\ [][NextSession]_vars

(***************************************************************************)
(* Concurrent inputs on the shared agents.                                 *)
(***************************************************************************)
NextConcurrent ==
    \E r \in RequestIds :
        \/ Request_get_llm_response(r)
        \/ Request_primary(r)
        \/ Request_secondary(r)
        \/ Request_leave(r)

SpecConcurrent == Init /\ [][NextConcurrent]_vars

(***************************************************************************)
(* Properties.                                                             *)
(***************************************************************************)
InStage == op \in {"RelevanceChecker.check", "ResearchAgent.generate", "VerificationAgent.check"}

\* the agent serving the request
self ==
    CASE op = "RelevanceChecker.check" -> "RelevanceChecker"
      [] op = "ResearchAgent.generate" -> "ResearchAgent"
      [] op = "VerificationAgent.check" -> "VerificationAgent"

\* check returned before it reached _get_llm_response
ShortCircuit == op = "RelevanceChecker.check" /\ args.top_docs = <<>>

PrimaryFailedSecondarySucceeded ==
    /\ InStage
    /\ primary_client[self] /\ secondary_client[self]
    /\ Len(calls) >= 2
    /\ calls[1].provider = "Primary" /\ calls[1].outcome.kind = "raise"
    /\ calls[2].provider = "Secondary" /\ calls[2].outcome.kind = "return"

\* C1: in every stage, when both providers are initialized, the Primary's
\* generate raises and the Secondary's generate returns, _get_llm_response
\* returns exactly what the Secondary returned, and the Secondary's call is the
\* last provider call of the request.
C1_SecondaryTextReturned ==
    PrimaryFailedSecondarySucceeded =>
        /\ Len(calls) = 2
        /\ pc \in {"resolved", "done"}
        /\ llm.kind = "return"
        /\ llm.value = calls[2].outcome.value

C1_Witness ==
    /\ PrimaryFailedSecondarySucceeded
    /\ pc = "done"
    /\ Truthy(llm.value)

\* C2: in every stage, when neither provider is initialized, no generate call
\* is made and _get_llm_response ends by raising the exhaustion error; it never
\* returns a value.
C2_NoProviderRaises ==
    (InStage /\ ~primary_client[self] /\ ~secondary_client[self]) =>
        /\ calls = <<>>
        /\ llm.kind # "return"
        /\ (pc \in {"resolved", "done"} /\ ~ShortCircuit) =>
               (llm.kind = "raise" /\ llm.exc = "RuntimeError")

C2_Witness ==
    /\ InStage /\ ~primary_client[self] /\ ~secondary_client[self]
    /\ pc = "resolved"
    /\ llm.kind = "raise"

\* C3: a RelevanceChecker.check whose retriever returned no passage returns
\* NO_MATCH and issues no provider generate call.
C3_EmptyRetrievalNoCall ==
    (op = "RelevanceChecker.check" /\ args.top_docs = <<>>) =>
        /\ pc = "done"
        /\ calls = <<>>
        /\ llm.kind = "none"
        /\ result.kind = "return"
        /\ result.value = "NO_MATCH"

C3_Witness ==
    /\ op = "RelevanceChecker.check" /\ args.top_docs = <<>>
    /\ primary_client["RelevanceChecker"] /\ secondary_client["RelevanceChecker"]
    /\ pc = "done"

\* check has classified a text that a provider returned for a non-empty retrieval
Classified ==
    /\ pc = "done" /\ op = "RelevanceChecker.check"
    /\ args.top_docs # <<>>
    /\ llm.kind = "return" /\ ~llm.value.none

\* C4: for a non-empty retrieval, a provider text that contains the substring
\* CAN_ANSWER is classified CAN_ANSWER, also when PART or NO_MATCH occur in it.
C4_CanAnswerWins ==
    (Classified /\ Contains(llm.value.text, "CAN_ANSWER")) =>
        (result.kind = "return" /\ result.value = "CAN_ANSWER")

C4_Witness ==
    /\ Classified
    /\ Contains(llm.value.text, "CAN_ANSWER")
    /\ Contains(llm.value.text, "PART")
    /\ Find(llm.value.text, "P") < Find(llm.value.text, "C")

IsWordCh(c) == c = "_" \/ \E i \in 1..26 : c = Ch(LOWERCASE, i) \/ c = Ch(UPPERCASE, i)

\* a token of s starts with w: w occurs in s at the start of a word
HasTokenStarting(s, w) ==
    \E i \in 1..(Len(s) - Len(w) + 1) :
        /\ SubSeq(s, i, i + Len(w) - 1) = w
        /\ (i = 1 \/ ~IsWordCh(Ch(s, i - 1)))

\* C5, as stated: a provider text that contains none of CAN_ANSWER, a token
\* starting with PART, or NO_MATCH is classified NO_MATCH.
C5_Original ==
    (Classified
        /\ ~Contains(llm.value.text, "CAN_ANSWER")
        /\ ~HasTokenStarting(llm.value.text, "PART")
        /\ ~Contains(llm.value.text, "NO_MATCH")) =>
        (result.kind = "return" /\ result.value = "NO_MATCH")

\* C5, amended: a provider text whose upper-cased form contains none of the
\* substrings CAN_ANSWER, PART, NO_MATCH (the empty text included) is
\* classified NO_MATCH.
C5_NoLabelNoMatch ==
    (Classified
        /\ ~Contains(Upper(llm.value.text), "CAN_ANSWER")
        /\ ~Contains(Upper(llm.value.text), "PART")
        /\ ~Contains(Upper(llm.value.text), "NO_MATCH")) =>
        (result.kind = "return" /\ result.value = "NO_MATCH")

C5_Witness ==
    /\ Classified
    /\ Strip(llm.value.text) # ""
    /\ ~Contains(Upper(llm.value.text), "CAN_ANSWER")
    /\ ~Contains(Upper(llm.value.text), "PART")
    /\ ~Contains(Upper(llm.value.text), "NO_MATCH")
    /\ result.value = "NO_MATCH"

\* C6: RelevanceChecker.check always ends by returning one of CAN_ANSWER,
\* PARTIAL, NO_MATCH, whatever the retrieval and the providers do; it never
\* ends with an exception.
C6_CheckTotal ==
    (pc = "done" /\ op = "RelevanceChecker.check") =>
        (result.kind = "return" /\ result.value \in {"CAN_ANSWER", "PARTIAL", "NO_MATCH"})

FieldNames == {"Supported", "Unsupported Claims", "Contradictions", "Relevant", "Additional Details"}

\* the lines of a response that give the field, by their position
LinesOf(lines, field) ==
    {i \in 1..Len(lines) : lines[i].kind # "raw" /\ Lower(lines[i].key) = Lower(field)}

LastLineOf(lines, field) ==
    lines[CHOOSE i \in LinesOf(lines, field) : \A j \in LinesOf(lines, field) : j <= i]

ItemTexts(line) == [i \in 1..Len(line.items) |-> line.items[i].text]

\* what the response says of the field, or the field's default
ExpectedField(lines, field) ==
    IF LinesOf(lines, field) = {}
    THEN CASE field \in {"Supported", "Relevant"} -> "NO"
           [] field \in {"Unsupported Claims", "Contradictions"} -> <<>>
           [] OTHER -> ""
    ELSE CASE field \in {"Supported", "Relevant"} -> Upper(LastLineOf(lines, field).value)
           [] field \in {"Unsupported Claims", "Contradictions"} ->
                 IF LastLineOf(lines, field).kind = "list"
                 THEN ItemTexts(LastLineOf(lines, field)) ELSE <<>>
           [] OTHER -> LastLineOf(lines, field).value

\* C7: the report parse_verification_response returns for a response that
\* lacks some of the five field lines contains all five fields, a missing field
\* holding its default and a present field its parsed value.
C7_FieldsParsedOrDefault ==
    (pc = "parsed" /\ \E field \in FieldNames : LinesOf(args.lines, field) = {}) =>
        /\ ~result.value.none
        /\ \A field \in FieldNames :
              /\ field \in DOMAIN result.value.dict
              /\ result.value.dict[field] = ExpectedField(args.lines, field)

\* C8: when the response has a line Unsupported Claims (or Contradictions)
\* with a bracketed comma-separated list, the field that
\* format_verification_report reads holds the items of the list, in order,
\* without their quotes and surrounding whitespace.
C8_ListItemsRead ==
    (pc = "done" /\ op = "VerificationAgent.format_verification_report") =>
        \A field \in {"Unsupported Claims", "Contradictions"} :
            (LinesOf(args.lines, field) # {} /\ LastLineOf(args.lines, field).kind = "list") =>
                DictGet(args.verification.dict, field, <<>>)
                    = ItemTexts(LastLineOf(args.lines, field))

ReportLabels ==
    <<"**Supported:** ", "**Unsupported Claims:** ", "**Contradictions:** ",
      "**Relevant:** ", "**Additional Details:** ">>

\* the formatted report has the five field lines, in order
FiveFields(report) ==
    /\ Len(Split(report, "\n")) = 6
    /\ \A i \in 1..5 : StartsWith(Split(report, "\n")[i], ReportLabels[i])

EmptyResponseReport ==
    "**Supported:** NO\n**Unsupported Claims:** None\n**Contradictions:** None\n"
    \o "**Relevant:** NO\n**Additional Details:** Empty response from the model.\n"

\* C9, as stated: VerificationAgent.check always ends by returning a report
\* with all five fields, also when every provider is absent or fails.
C9_Original ==
    (pc = "done" /\ op = "VerificationAgent.check") =>
        (result.kind = "return" /\ FiveFields(result.value.verification_report))

\* C9, amended: when some provider's generate returns, VerificationAgent.check
\* returns a report with all five fields, which is the all-default report with
\* the note "Empty response from the model." when the text is missing, empty
\* or blank; when every provider is absent or fails, check raises
\* RuntimeError("Failed to verify answer due to a model error.").
C9_ReportOrRaise ==
    (pc = "done" /\ op = "VerificationAgent.check") =>
        IF llm.kind = "return"
        THEN /\ result.kind = "return"
             /\ FiveFields(result.value.verification_report)
             /\ (llm.value.none \/ Strip(llm.value.text) = "") =>
                    result.value.verification_report = EmptyResponseReport
        ELSE /\ result.kind = "raise"
             /\ result.exc = "RuntimeError"
             /\ result.msg = "Failed to verify answer due to a model error."

C9_Witness ==
    /\ pc = "done" /\ op = "VerificationAgent.check"
    /\ Len(calls) = 2
    /\ llm.kind = "return" /\ llm.value.none
    /\ result.kind = "return"

\* C10: ResearchAgent.generate returns the trimmed provider text when it is
\* not empty after trimming and the sentinel text otherwise, also when every
\* provider fails; the draft_answer is never the empty string.
C10_DraftOrSentinel ==
    (pc = "done" /\ op = "ResearchAgent.generate") =>
        /\ result.kind = "return"
        /\ result.value.draft_answer # ""
        /\ result.value.draft_answer =
               IF llm.kind = "return" /\ ~llm.value.none /\ Strip(llm.value.text) # ""
               THEN Strip(llm.value.text)
               ELSE Sentinel

\* the stage has answered after running its coordinator
Answered == pc = "done" /\ InStage /\ ~ShortCircuit

\* every provider that could be tried failed or was absent
Exhausted == Answered /\ llm.kind = "raise"

\* the failure the fallback chain ended on carries a rate-limit indicator
LastFailureRateLimited ==
    /\ calls # <<>>
    /\ calls[Len(calls)].outcome.kind = "raise"
    /\ Contains(calls[Len(calls)].outcome.msg, "429")

\* the error raised to the caller carries the text, as its message or as its cause
ErrorCarries(text) ==
    /\ result.kind = "raise"
    /\ Contains(result.msg, text) \/ Contains(result.cause, text)

\* C11: in every stage, when the last provider failure of the chain is a rate
\* limit the error reaching the stage's caller carries the wait-and-retry
\* message, and when it is not, the generic exhaustion message.
C11_RateLimitSurfaced ==
    Exhausted =>
        IF LastFailureRateLimited
        THEN ErrorCarries("Please wait")
        ELSE /\ result.kind = "raise"
             /\ ~ErrorCarries("Please wait")

\* the passages' contents in order, a blank line between two of them
RECURSIVE BlankLineSeparated(_)
BlankLineSeparated(documents) ==
    IF documents = <<>> THEN ""
    ELSE IF Len(documents) = 1 THEN documents[1]
    ELSE BlankLineSeparated(SubSeq(documents, 1, Len(documents) - 1))
         \o "\n" \o "\n" \o documents[Len(documents)]

\* C12: the context generate returns and the context check returns are, for
\* the same passages, the one string that holds every passage's content in
\* order with blank-line separators, and it is the context the prompt carried.
C12_ContextIsAllPassages ==
    (pc = "done" /\ op \in {"ResearchAgent.generate", "VerificationAgent.check"}) =>
        /\ args.prompt.context = BlankLineSeparated(args.documents)
        /\ \A i \in 1..Len(calls) : calls[i].prompt.context = BlankLineSeparated(args.documents)
        /\ result.kind = "return" =>
               /\ result.value.context_used = BlankLineSeparated(args.documents)
               /\ result.value.context_used = ResearchAgent_context(args.documents)
               /\ result.value.context_used = VerificationAgent_context(args.documents)

C12_Witness ==
    /\ pc = "done" /\ op = "ResearchAgent.generate"
    /\ Len(args.documents) = 2 /\ args.documents[1] # args.documents[2]
    /\ result.kind = "return"
    /\ result.value.context_used = args.documents[1] \o "\n\n" \o args.documents[2]

\* C14: within one resolve the providers are invoked in priority order, each
\* at most once, and none after a provider has returned.
C14_PriorityOrder ==
    InStage =>
        /\ Len(calls) <= 2
        /\ \A i, j \in 1..Len(calls) :
               i < j => calls[i].provider = "Primary" /\ calls[j].provider = "Secondary"
        /\ \A i \in 1..Len(calls) : calls[i].outcome.kind = "return" => i = Len(calls)

C14_Witness ==
    /\ Answered
    /\ primary_client[self] /\ secondary_client[self]
    /\ Len(calls) = 1
    /\ calls[1].provider = "Primary" /\ calls[1].outcome.kind = "return"

\* C15: a provider whose construction failed on a missing credential is held
\* as absent while the agent and the other provider are constructed, and it
\* is never invoked; the other provider, if present, is still tried.
C15_AbsentNeverInvoked ==
    /\ \A a \in Agents :
          /\ primary_client[a] = (settings.GOOGLE_API_KEY # "")
          /\ secondary_client[a] = (settings.OPENAI_API_KEY # "")
    /\ InStage =>
          /\ \A i \in 1..Len(calls) :
                /\ calls[i].provider = "Primary" => primary_client[self]
                /\ calls[i].provider = "Secondary" => secondary_client[self]
          /\ (Answered /\ ~primary_client[self] /\ secondary_client[self]) =>
                Len(calls) = 1 /\ calls[1].provider = "Secondary"
          /\ (Answered /\ primary_client[self] /\ ~secondary_client[self]) =>
                Len(calls) = 1 /\ calls[1].provider = "Primary"

C15_Witness ==
    /\ Answered
    /\ ~primary_client[self] /\ secondary_client[self]
    /\ Len(calls) = 1 /\ calls[1].provider = "Secondary"
    /\ calls[1].outcome.kind = "return"

PrimaryReturnedEmpty ==
    /\ calls # <<>>
    /\ calls[1].provider = "Primary"
    /\ calls[1].outcome.kind = "return"
    /\ ~calls[1].outcome.value.none
    /\ calls[1].outcome.value.text = ""

\* C18: an empty text returned by the Primary without raising is a success:
\* the Secondary is not called, and the stage answers with its default
\* (NO_MATCH, the sentinel draft, the all-default report with the
\* empty-response note).
C18_EmptyPrimaryIsSuccess ==
    (InStage /\ PrimaryReturnedEmpty) =>
        /\ Len(calls) = 1
        /\ pc \in {"resolved", "done"}
        /\ pc = "done" =>
              /\ result.kind = "return"
              /\ op = "RelevanceChecker.check" => result.value = "NO_MATCH"
              /\ op = "ResearchAgent.generate" => result.value.draft_answer = Sentinel
              /\ op = "VerificationAgent.check" =>
                     result.value.verification_report = EmptyResponseReport

C18_Witness ==
    /\ pc = "done" /\ op = "VerificationAgent.check"
    /\ secondary_client[self]
    /\ PrimaryReturnedEmpty
    /\ result.kind = "return"
    /\ result.value.verification_report = EmptyResponseReport

\* the handler has answered a request of the session
Handled == pc = "done" /\ op = "process_question"

\* the handler called the collaborator, with the outcome
HandlerCalled(callee, kind) ==
    \E i \in 1..Len(calls) : calls[i].callee = callee /\ calls[i].kind = kind

\* the uploaded files were hashed
Hashed == HandlerCalled("_get_file_hashes", "return")

\* the uploaded files were processed again
Reprocessed ==
    HandlerCalled("processor.process", "return") \/ HandlerCalled("processor.process", "raise")

\* a retriever was built during the request
Rebuilt == HandlerCalled("retriever_builder.build_hybrid_retriever", "return")

\* the content hashes of the files, one file after the other
RECURSIVE HashSet(_)
HashSet(uploaded_files) ==
    IF uploaded_files = <<>> THEN {}
    ELSE {Sha256(FileBytes(Head(uploaded_files)))} \cup HashSet(Tail(uploaded_files))

\* C19: a retriever held by the session goes with the hash set of the upload
\* it was built from; a request rebuilds exactly when the retriever is unset
\* or the upload's hash set differs from the stored one, it sets file_hashes
\* and retriever together, and with unchanged files it keeps the stored
\* retriever without processing the files again.
C19_RetrieverMatchesHashes ==
    /\ session_state.retriever.none => session_state.file_hashes = {}
    /\ ~session_state.retriever.none =>
          \E uploaded \in Uploads :
              /\ session_state.file_hashes = HashSet(uploaded)
              /\ session_state.retriever.docs = Chunks(uploaded)
    /\ Handled =>
          /\ result.kind = "return" => result.value.state = session_state
          /\ Reprocessed <=>
                 /\ Hashed
                 /\ \/ args.state.retriever.none
                    \/ HashSet(args.uploaded_files) # args.state.file_hashes
          /\ Rebuilt => Reprocessed
          /\ Rebuilt =>
                 /\ session_state.file_hashes = HashSet(args.uploaded_files)
                 /\ ~session_state.retriever.none
                 /\ session_state.retriever.docs = Chunks(args.uploaded_files)
          /\ ~Rebuilt => session_state = args.state

C19_Witness ==
    /\ Handled
    /\ ~args.state.retriever.none
    /\ Len(args.uploaded_files) = 2
    /\ args.uploaded_files[1] # args.uploaded_files[2]
    /\ HashSet(args.uploaded_files) = args.state.file_hashes
    /\ HandlerCalled("workflow.full_pipeline", "return")
    /\ ~Reprocessed
    /\ session_state = args.state

\* the request failed: a validation, a collaborator, or no readable text
RequestFailed ==
    \/ Strip(args.question_text) = ""
    \/ args.uploaded_files = <<>>
    \/ \E i \in 1..Len(calls) : calls[i].kind = "raise"
    \/ /\ calls # <<>>
       /\ calls[Len(calls)].callee = "processor.process"

\* C20: process_question never ends with an exception; on every failure it
\* returns an error message as the answer, an empty verification report and
\* the session state, and a failure before the rebuild has completed leaves
\* file_hashes and retriever as they were.
C20_FailureIsReturned ==
    Handled =>
        /\ result.kind = "return"
        /\ result.value.state = session_state
        /\ RequestFailed =>
              /\ StartsWith(result.value.answer, CrossMark \o " Error: ")
              /\ Len(result.value.answer) > Len(CrossMark \o " Error: ")
              /\ result.value.verification_report = ""
              /\ ~Rebuilt => session_state = args.state
        /\ ~RequestFailed =>
              /\ HandlerCalled("workflow.full_pipeline", "return")
              /\ ~StartsWith(result.value.answer, CrossMark)

C20_Witness ==
    /\ Handled
    /\ ~args.state.retriever.none
    /\ HandlerCalled("retriever_builder.build_hybrid_retriever", "raise")
    /\ result.kind = "return"
    /\ result.value.answer = CrossMark \o " Error: embedding request failed"
    /\ result.value.verification_report = ""
    /\ session_state = args.state

\* the providers a request tries, given the clients its agent was constructed
\* with and how its own calls ended
ProvidersSeen(r) ==
    LET tried == requests[r].tried
        agent == requests[r].agent
        primary == settings.GOOGLE_API_KEY # ""
        secondary == settings.OPENAI_API_KEY # ""
    IN  /\ \A i \in 1..Len(tried) :
              /\ tried[i].provider = "Primary" => primary /\ i = 1
              /\ tried[i].provider = "Secondary" => secondary /\ i = Len(tried)
        /\ (requests[r].pc \in {"secondary", "done"} /\ primary) =>
              (tried # <<>> /\ tried[1].provider = "Primary")
        /\ (requests[r].pc = "done" /\ secondary /\ (~primary \/ tried[1].kind = "raise")) =>
              tried[Len(tried)].provider = "Secondary"

\* C17: no operation after construction changes the provider clients an
\* agent holds, so under any interleaving of concurrent requests every
\* request sees the providers fixed at construction, and the failure of a
\* provider in one request does not change the providers another one tries.
C17_ClientsFixed ==
    /\ [][primary_client' = primary_client /\ secondary_client' = secondary_client]_vars
    /\ [](\A a \in Agents :
             /\ primary_client[a] = (settings.GOOGLE_API_KEY # "")
             /\ secondary_client[a] = (settings.OPENAI_API_KEY # ""))
    /\ [](\A r \in RequestIds : requests[r].pc # "idle" => ProvidersSeen(r))

C17_Witness ==
    /\ requests[1].pc = "done" /\ requests[2].pc = "done"
    /\ requests[1].agent = requests[2].agent
    /\ requests[1].tried = <<Tried("Primary", "raise"), Tried("Secondary", "raise")>>
    /\ requests[2].tried = <<Tried("Primary", "return")>>

\* the stage was handed exactly one passage
OnePassage ==
    IF op = "RelevanceChecker.check" THEN Len(args.top_docs) = 1
    ELSE Len(args.documents) = 1

\* the stage's first call went to the Primary, which returned a text
PrimarySucceeded ==
    /\ calls # <<>>
    /\ calls[1].provider = "Primary"
    /\ calls[1].outcome.kind = "return"
    /\ ~calls[1].outcome.value.none

====
